---- MODULE Spec2Model ----
(***************************************************************************)
(* Model of the M2M gateway (M2M_flask/app.py and                          *)
(* backend/scripts/generate_image.py): the node locator, the workflow      *)
(* mutator, the upload-response parsing, and the Flask request handlers    *)
(* generate_image / generate_video running on concurrent server threads    *)
(* over one shared temporary directory.                                    *)
(*                                                                         *)
(* A Python str is a sequence of one-character strings.  A JSON object is  *)
(* a function whose domain is the set of keys it has; a workflow (a dict,  *)
(* iterated in insertion order) is a sequence of nodes with distinct ids.  *)
(***************************************************************************)
EXTENDS Integers, Sequences, FiniteSets, TLC

VARIABLES
    imageTemplate,  \* content of IMAGE_WORKFLOW_PATH (a workflow, or NoFile)
    videoTemplate,  \* content of VIDEO_WORKFLOW_PATH
    fs,             \* UPLOAD_FOLDER: path -> content of the file there, or NoFile
    req,            \* per server thread: the request it handles and where it is
    served,         \* number of requests accepted so far
    workflow,       \* the graph handed to the pure functions (locator, mutator)
    ret             \* what the last application of a pure function returned

vars == <<imageTemplate, videoTemplate, fs, req, served, workflow, ret>>

(***************************************************************************)
(* Bounds of the model.                                                    *)
(***************************************************************************)
MaxNodes == 3       \* nodes in a graph handed to the pure functions
MaxServed == 2      \* requests the server accepts in one behaviour

(***************************************************************************)
(* Python strings.                                                         *)
(***************************************************************************)
\* Characters in code-point order (only the order matters to str.__lt__).
AsciiOrder ==
    <<" ", ".", "/", "0", "1", "2", "3", "4", "5", "6", "7", "8", "9", ":", "?",
      "A", "E", "G", "I", "M", "N", "O", "P", "R", "S", "T", "V", "_",
      "a", "b", "c", "e", "g", "i", "m", "n", "o", "p", "r", "s", "t", "u", "v", "x">>

Ord(c) == CHOOSE i \in 1..Len(AsciiOrder) : AsciiOrder[i] = c

Digits == {"0", "1", "2", "3", "4", "5", "6", "7", "8", "9"}

DigitVal(c) == Ord(c) - Ord("0")

\* str.isdigit(): non-empty and every character a digit.
isdigit(s) == Len(s) > 0 /\ \A i \in 1..Len(s) : s[i] \in Digits

\* int(s) of a digit string.
RECURSIVE int(_)
int(s) ==
    IF Len(s) = 0 THEN 0
    ELSE 10 * int(SubSeq(s, 1, Len(s) - 1)) + DigitVal(s[Len(s)])

UpperCase == <<"A", "E", "G", "I", "M", "N", "O", "P", "R", "S", "T", "V">>
LowerCase == <<"a", "e", "g", "i", "m", "n", "o", "p", "r", "s", "t", "v">>

LowerChar(c) ==
    IF \E i \in 1..Len(UpperCase) : UpperCase[i] = c
    THEN LowerCase[CHOOSE i \in 1..Len(UpperCase) : UpperCase[i] = c]
    ELSE c

\* str.lower()
lower(s) == [i \in 1..Len(s) |-> LowerChar(s[i])]

\* sub in s
Contains(sub, s) ==
    \E i \in 0..(Len(s) - Len(sub)) : SubSeq(s, i + 1, i + Len(sub)) = sub

\* s < t on str: lexicographic by code point, a proper prefix first.
RECURSIVE StrLess(_, _)
StrLess(s, t) ==
    IF Len(t) = 0 THEN FALSE
    ELSE IF Len(s) = 0 THEN TRUE
    ELSE IF s[1] = t[1] THEN StrLess(Tail(s), Tail(t))
    ELSE Ord(s[1]) < Ord(t[1])

POSITIVE == <<"p", "o", "s", "i", "t", "i", "v", "e">>
NEGATIVE == <<"n", "e", "g", "a", "t", "i", "v", "e">>
MP4 == <<"m", "p", "4">>

(***************************************************************************)
(* JSON objects.                                                           *)
(***************************************************************************)
Has(obj, key) == key \in DOMAIN obj

\* obj[key] = value on a dict: the key is added when it is not there.
SetKey(obj, key, value) ==
    [k \in (DOMAIN obj) \cup {key} |-> IF k = key THEN value ELSE obj[k]]

\* Position of the node with this id in the workflow (ids are dict keys).
IndexOf(wf, node_id) == CHOOSE i \in 1..Len(wf) : wf[i].id = node_id

NodeOf(wf, node_id) == wf[IndexOf(wf, node_id)]

\* workflow[node_id]["inputs"][field] = value
SetInput(wf, node_id, field, value) ==
    [wf EXCEPT ![IndexOf(wf, node_id)].inputs = SetKey(@, field, value)]

\* An optional value (a Python value or None; a file or its absence) is a
\* sequence of length at most one.
None == <<>>
Some(x) == <<x>>

\* What a function that can raise gives back.
Return(v) == [raised |-> FALSE, value |-> v]
Raise(e) == [raised |-> TRUE, error |-> e]

(***************************************************************************)
(* Node locator.                                                           *)
(***************************************************************************)
RECURSIVE find_nodes(_, _)
find_nodes(wf, class_type) ==
    IF Len(wf) = 0 THEN <<>>
    ELSE IF Head(wf).class_type = class_type
         THEN <<Head(wf).id>> \o find_nodes(Tail(wf), class_type)
         ELSE find_nodes(Tail(wf), class_type)

\* The sort key of find_loadimage_nodes is int(x) for a digit string and x
\* itself otherwise; an int and a str do not compare (TypeError).
Comparable(x, y) == isdigit(x) <=> isdigit(y)

\* A sort that compares the identifiers as strings.
KeyLessAsStrings(x, y) == StrLess(x, y)

KeyLess(x, y) == IF isdigit(x) THEN int(x) < int(y) ELSE StrLess(x, y)

\* Insert x after every element that is not greater than it (a stable sort).
RECURSIVE Insert(_, _)
Insert(sorted, x) ==
    IF Len(sorted) = 0 THEN <<x>>
    ELSE IF KeyLess(x, Head(sorted)) THEN <<x>> \o sorted
    ELSE <<Head(sorted)>> \o Insert(Tail(sorted), x)

RECURSIVE SortedByKey(_)
SortedByKey(ids) ==
    IF Len(ids) = 0 THEN <<>>
    ELSE Insert(SortedByKey(SubSeq(ids, 1, Len(ids) - 1)), ids[Len(ids)])

\* sorted(ids, key=...): a comparison sort compares an int key with a str key
\* whenever the list holds both, and that comparison raises.
sorted(ids) ==
    IF \E i, j \in 1..Len(ids) : ~Comparable(ids[i], ids[j])
    THEN Raise("TypeError")
    ELSE Return(SortedByKey(ids))

find_loadimage_nodes(wf) == sorted(find_nodes(wf, "LoadImage"))

find_first_node(wf, class_type) ==
    LET ids == find_nodes(wf, class_type)
    IN  IF Len(ids) > 0 THEN Some(ids[1]) ELSE None

\* (workflow[node_id].get("_meta") or {}).get("title", "")
TitleOf(node) == IF Has(node, "title") THEN node.title ELSE <<>>

\* (workflow[node_id].get("inputs") or {}).get("text", "")
TextOf(node) == IF Has(node.inputs, "text") THEN node.inputs.text ELSE <<>>

\* A title test that forgets to lower-case the title.
TitleMatchesCaseSensitive(node) == Contains(POSITIVE, TitleOf(node))

TitleMatches(node) == Contains(POSITIVE, lower(TitleOf(node)))

\* A text test that forgets to exclude the negative prompt.
TextMatchesAnyText(node) == Len(TextOf(node)) > 0

TextMatches(node) ==
    Len(TextOf(node)) > 0 /\ ~Contains(NEGATIVE, lower(TextOf(node)))

\* for node_id in clip_nodes: if "positive" in title.lower(): return node_id
RECURSIVE FirstByTitle(_, _)
FirstByTitle(wf, ids) ==
    IF Len(ids) = 0 THEN None
    ELSE IF TitleMatches(NodeOf(wf, Head(ids))) THEN Some(Head(ids))
    ELSE FirstByTitle(wf, Tail(ids))

\* for node_id in clip_nodes: if text and "negative" not in text.lower(): ...
RECURSIVE FirstByText(_, _)
FirstByText(wf, ids) ==
    IF Len(ids) = 0 THEN None
    ELSE IF TextMatches(NodeOf(wf, Head(ids))) THEN Some(Head(ids))
    ELSE FirstByText(wf, Tail(ids))

find_positive_clip_node(wf) ==
    LET clip_nodes == find_nodes(wf, "CLIPTextEncode")
        byTitle == FirstByTitle(wf, clip_nodes)
        byText == FirstByText(wf, clip_nodes)
    IN  IF byTitle # None THEN byTitle
        ELSE IF byText # None THEN byText
        ELSE IF Len(clip_nodes) > 0 THEN Some(clip_nodes[1])
        ELSE None

\* Truth value of an optional str: neither None nor "".
Truthy(opt) == Len(opt) = 1 /\ Len(opt[1]) > 0

(***************************************************************************)
(* Workflow loader and mutator.                                            *)
(***************************************************************************)
\* The template file is absent (None) or holds a workflow.
load_workflow(file) ==
    IF file = None THEN Raise("FileNotFoundError") ELSE Return(file[1])

\* A mutator that sets format on the SaveImage node whether or not the
\* template has the field.
PatchSaveImageAddsFormat(wf, save_id, filename_prefix) ==
    LET wf1 == IF Len(filename_prefix) > 0
               THEN SetInput(wf, save_id, "filename_prefix", filename_prefix)
               ELSE wf
    IN  SetInput(wf1, save_id, "format", MP4)

\* if save_id: filename_prefix when one was given; format forced when present
PatchSaveImage(wf, save_id, filename_prefix) ==
    LET wf1 == IF Len(filename_prefix) > 0
               THEN SetInput(wf, save_id, "filename_prefix", filename_prefix)
               ELSE wf
    IN  IF Has(NodeOf(wf1, save_id).inputs, "format")
        THEN SetInput(wf1, save_id, "format", MP4)
        ELSE wf1

\* The part of build_image_workflow after the LoadImage nodes were found.
PatchImageWorkflow(wf, load_nodes, crop1_filename, crop2_filename, prompt, filename_prefix) ==
    LET wf1 == SetInput(wf, load_nodes[1], "image", crop1_filename)
        wf2 == SetInput(wf1, load_nodes[2], "image", crop2_filename)
        gemini_id == find_first_node(wf2, "GeminiImageNode")
        wf3 == IF Truthy(gemini_id) /\ Len(prompt) > 0
               THEN SetInput(wf2, gemini_id[1], "prompt", prompt)
               ELSE wf2
        save_id == find_first_node(wf3, "SaveImage")
    IN  IF Truthy(save_id) THEN PatchSaveImage(wf3, save_id[1], filename_prefix)
        ELSE wf3

\* A mutator without the check of the number of LoadImage nodes: a template
\* with fewer than two is returned as loaded.
build_image_workflow_unchecked(file, crop1_filename, crop2_filename, prompt, filename_prefix) ==
    LET loaded == load_workflow(file)
    IN  IF loaded.raised THEN loaded
        ELSE LET found == find_loadimage_nodes(loaded.value)
             IN  IF found.raised THEN found
                 ELSE IF Len(found.value) < 2 THEN Return(loaded.value)
                 ELSE Return(PatchImageWorkflow(loaded.value, found.value,
                                 crop1_filename, crop2_filename, prompt, filename_prefix))

\* prompt and filename_prefix: the empty string stands for None as well, the
\* code only tests their truth value.
build_image_workflow(file, crop1_filename, crop2_filename, prompt, filename_prefix) ==
    LET loaded == load_workflow(file)
    IN  IF loaded.raised THEN loaded
        ELSE LET found == find_loadimage_nodes(loaded.value)
             IN  IF found.raised THEN found
                 ELSE IF Len(found.value) < 2 THEN Raise("RuntimeError")
                 ELSE Return(PatchImageWorkflow(loaded.value, found.value,
                                 crop1_filename, crop2_filename, prompt, filename_prefix))

PatchVideoWorkflow(wf, load_nodes, image_filename, prompt, filename_prefix) ==
    LET wf1 == SetInput(wf, load_nodes[1], "image", image_filename)
        positive_id == find_positive_clip_node(wf1)
        wf2 == IF Truthy(positive_id) /\ Len(prompt) > 0
               THEN SetInput(wf1, positive_id[1], "text", prompt)
               ELSE wf1
        save_id == find_first_node(wf2, "SaveVideo")
    IN  IF Truthy(save_id) /\ Len(filename_prefix) > 0
        THEN SetInput(wf2, save_id[1], "filename_prefix", filename_prefix)
        ELSE wf2

build_video_workflow(file, image_filename, prompt, filename_prefix) ==
    LET loaded == load_workflow(file)
    IN  IF loaded.raised THEN loaded
        ELSE LET found == find_loadimage_nodes(loaded.value)
             IN  IF found.raised THEN found
                 ELSE IF Len(found.value) = 0 THEN Raise("RuntimeError")
                 ELSE Return(PatchVideoWorkflow(loaded.value, found.value,
                                 image_filename, prompt, filename_prefix))

(***************************************************************************)
(* Remote uploader: the reference name taken from the parsed response.     *)
(***************************************************************************)
\* if result.get('subfolder'): return f"{result['subfolder']}/{result['name']}"
\* return result.get('name', filename)
UploadReference(result, filename) ==
    IF Has(result, "subfolder") /\ Len(result.subfolder) > 0
    THEN IF Has(result, "name")
         THEN Return(result.subfolder \o <<"/">> \o result.name)
         ELSE Raise("KeyError")
    ELSE Return(IF Has(result, "name") THEN result.name ELSE filename)

\* A file of the temporary directory: absent, or the bytes some request
\* saved, named by the request and the form field they came from.
NoFile == <<>>

\* What the remote engine answers to a POST: a failure (network error,
\* non-2xx status, a body that is no JSON object) or a JSON object.
HttpFailure == [ok |-> FALSE]
HttpOk(obj) == [ok |-> TRUE, result |-> obj]

\* upload_image_to_comfy: open and read the file, POST it, parse the answer.
\* posted says whether the POST was issued, data what was read and sent.
upload_image_to_comfy(fsys, file_path, filename, reply) ==
    IF fsys[file_path] = NoFile
    THEN [raised |-> TRUE, error |-> "FileNotFoundError", posted |-> FALSE, data |-> NoFile]
    ELSE IF ~reply.ok
    THEN [raised |-> TRUE, error |-> "URLError", posted |-> TRUE, data |-> fsys[file_path]]
    ELSE LET ref == UploadReference(reply.result, filename)
         IN  IF ref.raised
             THEN [raised |-> TRUE, error |-> ref.error, posted |-> TRUE,
                   data |-> fsys[file_path]]
             ELSE [raised |-> FALSE, value |-> ref.value, posted |-> TRUE,
                   data |-> fsys[file_path]]

(***************************************************************************)
(* Workflow submitter.                                                     *)
(***************************************************************************)
send_workflow(workflow_json, reply) ==
    IF ~reply.ok THEN Raise("URLError") ELSE Return(reply.result)

NotAvailable == <<"N", "/", "A">>

\* result.get("prompt_id", "N/A")
PromptIdOf(result) ==
    IF Has(result, "prompt_id") THEN result.prompt_id ELSE NotAvailable

(***************************************************************************)
(* werkzeug.utils.secure_filename, as the handlers use it to name the      *)
(* temporary file: path separators become spaces, whitespace runs become   *)
(* one "_", characters outside [A-Za-z0-9_.-] are dropped, and leading and *)
(* trailing "." and "_" are stripped.                                      *)
(***************************************************************************)
RECURSIVE LStrip(_, _)
LStrip(s, chars) ==
    IF Len(s) > 0 /\ s[1] \in chars THEN LStrip(Tail(s), chars) ELSE s

RECURSIVE RStrip(_, _)
RStrip(s, chars) ==
    IF Len(s) > 0 /\ s[Len(s)] \in chars
    THEN RStrip(SubSeq(s, 1, Len(s) - 1), chars)
    ELSE s

\* "_".join(s.split())
RECURSIVE JoinSplit(_)
JoinSplit(s) ==
    LET t == LStrip(s, {" "})
        n == IF \E i \in 1..Len(t) : t[i] = " "
             THEN (CHOOSE i \in 1..Len(t) :
                      t[i] = " " /\ \A j \in 1..(i - 1) : t[j] # " ") - 1
             ELSE Len(t)
        rest == LStrip(SubSeq(t, n + 1, Len(t)), {" "})
    IN  IF Len(t) = 0 THEN <<>>
        ELSE IF Len(rest) = 0 THEN SubSeq(t, 1, n)
        ELSE SubSeq(t, 1, n) \o <<"_">> \o JoinSplit(rest)

FilenameUnsafe == {" ", "/", ":", "?"}

IsFilenameChar(c) == c \notin FilenameUnsafe

secure_filename(filename) ==
    LET spaced == [i \in 1..Len(filename) |->
                      IF filename[i] = "/" THEN " " ELSE filename[i]]
        kept == SelectSeq(JoinSplit(spaced), IsFilenameChar)
    IN  RStrip(LStrip(kept, {".", "_"}), {".", "_"})

(***************************************************************************)
(* The graphs the pure functions are applied to.                           *)
(***************************************************************************)
PositivePrompt ==
    <<"P", "o", "s", "i", "t", "i", "v", "e", " ", "P", "r", "o", "m", "p", "t">>
NegativePrompt ==
    <<"N", "e", "g", "a", "t", "i", "v", "e", " ", "P", "r", "o", "m", "p", "t">>

Titles == {PositivePrompt, NegativePrompt}

Texts == {<<>>, <<"c", "a", "t">>, <<"N", "e", "g", "a", "t", "i", "v", "e">>}

\* Identifiers of LoadImage nodes: digit strings (two of them with the same
\* numeric value) and identifiers that are not digit strings.
LoadIds ==
    {<<"2">>, <<"3">>, <<"7">>, <<"9">>, <<"1", "0">>, <<"0", "7">>,
     <<"1", "2", ":", "1">>, <<"a">>}

TemplateImage == <<"e", "x", ".", "p", "n", "g">>

LoadImageNode(id) ==
    [id |-> id, class_type |-> "LoadImage", inputs |-> [image |-> TemplateImage]]

OtherImageNodes ==
    { [id |-> <<"2", "0">>, class_type |-> "GeminiImageNode",
       inputs |-> [prompt |-> <<"c", "a", "t">>]],
      [id |-> <<"2", "1">>, class_type |-> "GeminiImageNode",
       inputs |-> [prompt |-> <<>>]],
      [id |-> <<"3", "0">>, class_type |-> "SaveImage",
       inputs |-> [filename_prefix |-> <<"o", "u", "t">>]],
      [id |-> <<"3", "1">>, class_type |-> "SaveImage",
       inputs |-> [filename_prefix |-> <<"o", "u", "t">>, format |-> <<"p", "n", "g">>]] }

ImageNodes == {LoadImageNode(id) : id \in LoadIds} \cup OtherImageNodes

\* Sequences of at most n nodes of the pool, no identifier twice (dict keys).
RECURSIVE GraphsOver(_, _)
GraphsOver(pool, n) ==
    IF n = 0 THEN {<<>>}
    ELSE LET shorter == GraphsOver(pool, n - 1)
         IN  shorter \cup
             UNION { { Append(g, node) : node \in
                         {m \in pool : \A i \in 1..Len(g) : g[i].id # m.id} } :
                     g \in shorter }

ImageGraphs == GraphsOver(ImageNodes, MaxNodes)

ClipInputs ==
    {[clip |-> <<"4">>]} \cup {[clip |-> <<"4">>, text |-> t] : t \in Texts}

\* The text-prompt nodes a video graph can hold at one identifier, with or
\* without a title, with or without an input text; and one LoadImage node.
VideoNodesAt(id) ==
    {[id |-> id, class_type |-> "CLIPTextEncode", inputs |-> i] : i \in ClipInputs}
    \cup {[id |-> id, class_type |-> "CLIPTextEncode", inputs |-> i, title |-> t] :
              i \in ClipInputs, t \in Titles}
    \cup {LoadImageNode(id)}

PositionIds == <<<<"1">>, <<"2">>, <<"3">>, <<"4">>, <<"5">>, <<"6">>>>

\* Video graphs: the k-th node of the mapping has the k-th identifier.
RECURSIVE VideoGraphsOf(_)
VideoGraphsOf(n) ==
    IF n = 0 THEN {<<>>}
    ELSE LET shorter == VideoGraphsOf(n - 1)
         IN  shorter \cup
             UNION { { Append(g, node) : node \in VideoNodesAt(PositionIds[n]) } :
                     g \in {h \in shorter : Len(h) = n - 1} }

VideoGraphs == VideoGraphsOf(MaxNodes)

\* Every order of the nodes of S in the mapping.
Orderings(S) ==
    {g \in [1..Cardinality(S) -> S] :
        \A i, j \in 1..Cardinality(S) : i # j => g[i] # g[j]}

\* Image templates with two LoadImage nodes and two of the other nodes (two
\* generator nodes, two SaveImage nodes, or one of each), in every order.
FullImageGraphs ==
    UNION { Orderings({LoadImageNode(<<"7">>), LoadImageNode(<<"3">>), p[1], p[2]}) :
            p \in {q \in OtherImageNodes \X OtherImageNodes : q[1] # q[2]} }

Graphs == ImageGraphs \cup FullImageGraphs \cup VideoGraphs

(***************************************************************************)
(* Applications of the pure functions to a graph: the locator and the      *)
(* mutator.  ret records the function, its arguments and what it returned. *)
(***************************************************************************)
Prompts == {<<>>, <<"d", "o", "g">>}
Prefixes == {<<>>, <<"m", "2", "m">>}

NotCalled == [fn |-> "none"]

CallFindLoadImage ==
    /\ ret = NotCalled
    /\ ret' = [fn |-> "find_loadimage_nodes", out |-> find_loadimage_nodes(workflow)]
    /\ UNCHANGED <<imageTemplate, videoTemplate, fs, req, served, workflow>>

CallFindPositiveClip ==
    /\ ret = NotCalled
    /\ ret' = [fn |-> "find_positive_clip_node", out |-> find_positive_clip_node(workflow)]
    /\ UNCHANGED <<imageTemplate, videoTemplate, fs, req, served, workflow>>

CallBuildImage ==
    /\ ret = NotCalled
    /\ \E prompt \in Prompts, filename_prefix \in Prefixes :
          ret' = [fn |-> "build_image_workflow",
                  crop1_filename |-> <<"r", "1">>, crop2_filename |-> <<"r", "2">>,
                  prompt |-> prompt, filename_prefix |-> filename_prefix,
                  out |-> build_image_workflow(Some(workflow), <<"r", "1">>, <<"r", "2">>,
                                               prompt, filename_prefix)]
    /\ UNCHANGED <<imageTemplate, videoTemplate, fs, req, served, workflow>>

CallBuildVideo ==
    /\ ret = NotCalled
    /\ \E prompt \in Prompts, filename_prefix \in Prefixes :
          ret' = [fn |-> "build_video_workflow",
                  image_filename |-> <<"r", "1">>,
                  prompt |-> prompt, filename_prefix |-> filename_prefix,
                  out |-> build_video_workflow(Some(workflow), <<"r", "1">>,
                                               prompt, filename_prefix)]
    /\ UNCHANGED <<imageTemplate, videoTemplate, fs, req, served, workflow>>

InitGraph ==
    /\ workflow \in Graphs
    /\ ret = NotCalled
    /\ imageTemplate = None
    /\ videoTemplate = None
    /\ fs = <<>>
    /\ req = <<>>
    /\ served = 0

NextGraph ==
    \/ CallFindLoadImage
    \/ CallFindPositiveClip
    \/ CallBuildImage
    \/ CallBuildVideo

SpecGraph == InitGraph /\ [][NextGraph]_vars

(***************************************************************************)
(* Applications of the remote uploader to a file of the temporary          *)
(* directory, with the answer of the remote engine as an input.            *)
(***************************************************************************)
\* The filenames a browser sends with an upload.
RawNames == {<<"a">>, <<".", ".", "/", "a">>, <<"b">>, <<"?">>}

\* The files of UPLOAD_FOLDER the handlers can name; the empty name is the
\* folder itself and never a file.
Paths == {secure_filename(n) : n \in RawNames} \ {<<>>}

ReplyNames == {<<>>, <<"p", "1">>}
ReplySubfolders == {<<>>, <<"o", "u", "t">>}

\* Every JSON object with or without name and subfolder (ComfyUI also
\* sends type).
UploadResults ==
    {[type |-> "input"]}
    \cup {[type |-> "input", name |-> n] : n \in ReplyNames}
    \cup {[type |-> "input", subfolder |-> f] : f \in ReplySubfolders}
    \cup {[type |-> "input", name |-> n, subfolder |-> f] :
              n \in ReplyNames, f \in ReplySubfolders}

UploadReplies == {HttpFailure} \cup {HttpOk(r) : r \in UploadResults}

CallUpload ==
    /\ ret = NotCalled
    /\ \E file_path \in Paths, filename \in RawNames, reply \in UploadReplies :
          ret' = [fn |-> "upload_image_to_comfy", file_path |-> file_path,
                  filename |-> filename, reply |-> reply,
                  out |-> upload_image_to_comfy(fs, file_path, filename, reply)]
    /\ UNCHANGED <<imageTemplate, videoTemplate, fs, req, served, workflow>>

InitUploader ==
    /\ fs \in [Paths -> {NoFile, <<1, 1>>}]
    /\ ret = NotCalled
    /\ workflow = <<>>
    /\ imageTemplate = None
    /\ videoTemplate = None
    /\ req = <<>>
    /\ served = 0

NextUploader == CallUpload

SpecUploader == InitUploader /\ [][NextUploader]_vars

(***************************************************************************)
(* The Flask server: generate_image and generate_video, one request per    *)
(* server thread at a time, all threads over the same UPLOAD_FOLDER and    *)
(* the same template files.                                                *)
(***************************************************************************)
Threads == {1, 2}

GeminiNode ==
    [id |-> <<"2", "0">>, class_type |-> "GeminiImageNode",
     inputs |-> [prompt |-> <<"c", "a", "t">>]]

SaveImageNode ==
    [id |-> <<"3", "1">>, class_type |-> "SaveImage",
     inputs |-> [filename_prefix |-> <<"o", "u", "t">>, format |-> <<"p", "n", "g">>]]

GoodImageTemplate ==
    <<LoadImageNode(<<"7">>), LoadImageNode(<<"3">>), GeminiNode, SaveImageNode>>

OneLoadImageTemplate == <<LoadImageNode(<<"3">>), GeminiNode>>

NoLoadImageTemplate == <<GeminiNode>>

GoodVideoTemplate ==
    << LoadImageNode(<<"1">>),
       [id |-> <<"2">>, class_type |-> "CLIPTextEncode",
        inputs |-> [clip |-> <<"4">>, text |-> <<"c", "a", "t">>], title |-> NegativePrompt],
       [id |-> <<"3">>, class_type |-> "CLIPTextEncode",
        inputs |-> [clip |-> <<"4">>, text |-> <<>>], title |-> PositivePrompt],
       [id |-> <<"4">>, class_type |-> "SaveVideo",
        inputs |-> [filename_prefix |-> <<"o", "u", "t">>]] >>

NoLoadVideoTemplate ==
    << [id |-> <<"2">>, class_type |-> "CLIPTextEncode",
        inputs |-> [clip |-> <<"4">>, text |-> <<"c", "a", "t">>]] >>

\* The template files a server can be deployed with (image, video).
Deployments ==
    { <<Some(GoodImageTemplate), Some(GoodVideoTemplate)>>,
      <<Some(OneLoadImageTemplate), Some(NoLoadVideoTemplate)>>,
      <<Some(NoLoadImageTemplate), None>> }

\* The multipart fields of a request: a file field is absent (None) or
\* carries a filename, possibly empty; so are the form fields.
Crop1Fields == {None, Some(<<>>), Some(<<"a">>), Some(<<"?">>)}
Crop2Fields == {None, Some(<<".", ".", "/", "a">>), Some(<<"b">>), Some(<<"?">>)}
ImageFields == {None, Some(<<>>), Some(<<".", ".", "/", "a">>), Some(<<"b">>)}
FormFields ==
    { [prompt |-> Some(<<" ", "d", "o", "g">>), filename_prefix |-> Some(<<"m", "2", "m">>)],
      [prompt |-> Some(<<"d", "o", "g", " ">>), filename_prefix |-> Some(<<"m", "2", "m", " ">>)] }

\* (request.form.get(name) or "").strip()
FormValue(field) ==
    IF field = None THEN <<>> ELSE RStrip(LStrip(field[1], {" "}), {" "})

\* What the remote engine answers to the upload of a file and to a prompt.
EngineUploadReplies(filename) ==
    {HttpFailure, HttpOk([type |-> "input", name |-> filename, subfolder |-> <<>>])}

EnginePromptReplies ==
    {HttpFailure, HttpOk([prompt_id |-> <<"j", "1">>, number |-> 1])}

IdleRequest ==
    [pc |-> "idle", kind |-> "none", no |-> 0, files |-> <<>>, prompt |-> <<>>,
     filename_prefix |-> <<>>, refs |-> <<>>, graph |-> None, result |-> None,
     exc |-> "", response |-> None, trace |-> <<>>]

\* One step of a request as the handler took it: error is "" when the step
\* succeeded, http the request it sent to the remote engine ("" for none),
\* data the file content it read or wrote.
Event(step, error, http, data) ==
    [step |-> step, error |-> error, http |-> http, data |-> data]

SaveStep == <<"save1", "save2">>
UploadStep == <<"upload1", "upload2">>
ExistsStep == <<"exists1", "exists2">>
RemoveStep == <<"remove1", "remove2">>
DeleteStep == <<"delete1", "delete2">>

\* An error response that also carries a prompt_id field.
ErrorResponseWithPromptId(status, message) ==
    [status |-> status,
     body |-> [ok |-> FALSE, error |-> message, prompt_id |-> NotAvailable]]

\* jsonify({"ok": False, "error": ...}), status
ErrorResponse(status, message) ==
    [status |-> status, body |-> [ok |-> FALSE, error |-> message]]

\* jsonify({"ok": True, ...}) of generate_image and of generate_video
SuccessResponse(r) ==
    IF r.kind = "image"
    THEN [status |-> 200,
          body |-> [ok |-> TRUE, message |-> "image workflow started",
                    prompt_id |-> PromptIdOf(r.result[1]),
                    crop1_filename |-> r.refs[1], crop2_filename |-> r.refs[2],
                    prompt |-> r.prompt, filename_prefix |-> r.filename_prefix,
                    hint |-> "SERVER_URL"]]
    ELSE [status |-> 200,
          body |-> [ok |-> TRUE, message |-> "video workflow started",
                    prompt_id |-> PromptIdOf(r.result[1]),
                    image_filename |-> r.refs[1],
                    prompt |-> r.prompt, filename_prefix |-> r.filename_prefix,
                    hint |-> "SERVER_URL"]]

\* os.path.join(app.config['UPLOAD_FOLDER'], secure_filename(file.filename))
PathOf(r, i) == secure_filename(r.files[i])

\* A handler that tries the step again after it raised.
RaisedInTryRetries(r, event) ==
    [r EXCEPT !.trace = Append(@, event)]

\* The request after a step raised inside the inner try: the finally clause
\* runs next.
RaisedInTry(r, event) ==
    [r EXCEPT !.exc = event.error, !.trace = Append(@, event), !.pc = "exists1"]

\* The request after a step raised outside the inner try, or inside the
\* finally clause: the outer except clause runs next.
RaisedOutsideTry(r, event) ==
    [r EXCEPT !.exc = event.error, !.trace = Append(@, event), !.pc = "except"]

\* Where the finally clause goes after it is done with file i.
AfterCleanupOf(r, i) ==
    IF i < Len(r.files) THEN ExistsStep[i + 1]
    ELSE IF r.exc = "" THEN "done"
    ELSE "except"

\* A request with its validated fields, about to save its first file.
Accepted(kind, no, files, form) ==
    [IdleRequest EXCEPT !.pc = "save1", !.kind = kind, !.no = no, !.files = files,
                        !.prompt = FormValue(form.prompt),
                        !.filename_prefix = FormValue(form.filename_prefix)]

\* A request answered 400 by the validation.
Rejected(kind, no, message) ==
    [IdleRequest EXCEPT !.pc = "done", !.kind = kind, !.no = no,
                        !.response = Some(ErrorResponse(400, message)),
                        !.trace = <<Event("respond_error", message, "", NoFile)>>]

\* The server hands a request to a thread that handles none; the threads are
\* interchangeable, and the first request of a run goes to thread 1.
Free(t) ==
    /\ req[t].pc \in {"idle", "done"}
    /\ served < MaxServed
    /\ t = 1 \/ served > 0

\* generate_image up to the two paths: the validation of the fields.
AcceptImage(t) ==
    /\ Free(t)
    /\ \E crop1 \in Crop1Fields, crop2 \in Crop2Fields, form \in FormFields :
          req' = [req EXCEPT ![t] =
                    IF crop1 = None \/ crop2 = None
                    THEN Rejected("image", served + 1, "crop1 and crop2 are required")
                    ELSE IF crop1[1] = <<>> \/ crop2[1] = <<>>
                    THEN Rejected("image", served + 1, "select a file")
                    ELSE Accepted("image", served + 1, <<crop1[1], crop2[1]>>, form)]
    /\ served' = served + 1
    /\ UNCHANGED <<imageTemplate, videoTemplate, fs, workflow, ret>>

\* generate_video up to the path: the validation of the fields.
AcceptVideo(t) ==
    /\ Free(t)
    /\ \E image \in ImageFields, form \in FormFields :
          req' = [req EXCEPT ![t] =
                    IF image = None
                    THEN Rejected("video", served + 1, "image is required")
                    ELSE IF image[1] = <<>>
                    THEN Rejected("video", served + 1, "select a file")
                    ELSE Accepted("video", served + 1, <<image[1]>>, form)]
    /\ served' = served + 1
    /\ UNCHANGED <<imageTemplate, videoTemplate, fs, workflow, ret>>

\* crop1_file.save(crop1_path), crop2_file.save(crop2_path),
\* image_file.save(image_path): before the inner try.  Saving to the empty
\* name opens the folder itself and raises.
Save(t, i) ==
    LET r == req[t]
    IN  /\ r.pc = SaveStep[i]
        /\ IF PathOf(r, i) = <<>>
           THEN /\ req' = [req EXCEPT ![t] = RaisedOutsideTry(r,
                              Event(SaveStep[i], "IsADirectoryError", "", NoFile))]
                /\ fs' = fs
           ELSE /\ fs' = [fs EXCEPT ![PathOf(r, i)] = <<r.no, i>>]
                /\ req' = [req EXCEPT ![t] =
                              [r EXCEPT !.trace = Append(@,
                                            Event(SaveStep[i], "", "", <<r.no, i>>)),
                                        !.pc = IF i < Len(r.files) THEN SaveStep[i + 1]
                                               ELSE "upload1"]]
        /\ UNCHANGED <<imageTemplate, videoTemplate, served, workflow, ret>>

\* upload_image_to_comfy(crop_path, crop_file.filename) inside the try.
Upload(t, i) ==
    LET r == req[t]
    IN  /\ r.pc = UploadStep[i]
        /\ \E reply \in EngineUploadReplies(r.files[i]) :
              LET out == upload_image_to_comfy(fs, PathOf(r, i), r.files[i], reply)
                  http == IF out.posted THEN "POST /upload/image" ELSE ""
              IN  req' = [req EXCEPT ![t] =
                     IF out.raised
                     THEN RaisedInTry(r, Event(UploadStep[i], out.error, http, out.data))
                     ELSE [r EXCEPT !.refs = Append(@, out.value),
                                    !.trace = Append(@,
                                        Event(UploadStep[i], "", http, out.data)),
                                    !.pc = IF i < Len(r.files) THEN UploadStep[i + 1]
                                           ELSE "build"]]
        /\ UNCHANGED <<imageTemplate, videoTemplate, fs, served, workflow, ret>>

\* build_image_workflow(...) / build_video_workflow(...) inside the try.
Build(t) ==
    LET r == req[t]
        out == IF r.kind = "image"
               THEN build_image_workflow(imageTemplate, r.refs[1], r.refs[2],
                                         r.prompt, r.filename_prefix)
               ELSE build_video_workflow(videoTemplate, r.refs[1],
                                         r.prompt, r.filename_prefix)
    IN  /\ r.pc = "build"
        /\ req' = [req EXCEPT ![t] =
              IF out.raised
              THEN RaisedInTry(r, Event("build", out.error, "", NoFile))
              ELSE [r EXCEPT !.graph = Some(out.value),
                             !.trace = Append(@, Event("build", "", "", NoFile)),
                             !.pc = "submit"]]
        /\ UNCHANGED <<imageTemplate, videoTemplate, fs, served, workflow, ret>>

\* result = send_workflow(workflow) inside the try.
Submit(t) ==
    LET r == req[t]
    IN  /\ r.pc = "submit"
        /\ \E reply \in EnginePromptReplies :
              LET out == send_workflow(r.graph[1], reply)
              IN  req' = [req EXCEPT ![t] =
                     IF out.raised
                     THEN RaisedInTry(r, Event("submit", out.error, "POST /prompt", NoFile))
                     ELSE [r EXCEPT !.result = Some(out.value),
                                    !.trace = Append(@,
                                        Event("submit", "", "POST /prompt", NoFile)),
                                    !.pc = "respond"]]
        /\ UNCHANGED <<imageTemplate, videoTemplate, fs, served, workflow, ret>>

\* return jsonify({"ok": True, ...}): the value is built, then finally runs.
Respond(t) ==
    LET r == req[t]
    IN  /\ r.pc = "respond"
        /\ req' = [req EXCEPT ![t] =
              [r EXCEPT !.response = Some(SuccessResponse(r)),
                        !.trace = Append(@, Event("respond", "", "", NoFile)),
                        !.pc = "exists1"]]
        /\ UNCHANGED <<imageTemplate, videoTemplate, fs, served, workflow, ret>>

\* finally: if os.path.exists(path)
Exists(t, i) ==
    LET r == req[t]
    IN  /\ r.pc = ExistsStep[i]
        /\ req' = [req EXCEPT ![t].pc =
              IF fs[PathOf(r, i)] # NoFile THEN RemoveStep[i] ELSE AfterCleanupOf(r, i)]
        /\ UNCHANGED <<imageTemplate, videoTemplate, fs, served, workflow, ret>>

\* finally: os.remove(path); it raises when the file is gone by now, and the
\* exception leaves the finally clause for the outer except.
Remove(t, i) ==
    LET r == req[t]
    IN  /\ r.pc = RemoveStep[i]
        /\ IF fs[PathOf(r, i)] = NoFile
           THEN /\ req' = [req EXCEPT ![t] = RaisedOutsideTry(r,
                              Event(DeleteStep[i], "FileNotFoundError", "", NoFile))]
                /\ fs' = fs
           ELSE /\ fs' = [fs EXCEPT ![PathOf(r, i)] = NoFile]
                /\ req' = [req EXCEPT ![t] =
                              [r EXCEPT !.trace = Append(@,
                                            Event(DeleteStep[i], "", "", NoFile)),
                                        !.pc = AfterCleanupOf(r, i)]]
        /\ UNCHANGED <<imageTemplate, videoTemplate, served, workflow, ret>>

\* except Exception as e: return jsonify({"ok": False, "error": str(e)}), 500
Except(t) ==
    LET r == req[t]
    IN  /\ r.pc = "except"
        /\ req' = [req EXCEPT ![t] =
              [r EXCEPT !.response = Some(ErrorResponse(500, r.exc)),
                        !.trace = Append(@, Event("respond_error", r.exc, "", NoFile)),
                        !.pc = "done"]]
        /\ UNCHANGED <<imageTemplate, videoTemplate, fs, served, workflow, ret>>

Init ==
    /\ \E d \in Deployments : imageTemplate = d[1] /\ videoTemplate = d[2]
    /\ fs = [p \in Paths |-> NoFile]
    /\ req = [t \in Threads |-> IdleRequest]
    /\ served = 0
    /\ workflow = <<>>
    /\ ret = NotCalled

Next ==
    \E t \in Threads :
        \/ AcceptImage(t)
        \/ AcceptVideo(t)
        \/ \E i \in {1, 2} : Save(t, i)
        \/ \E i \in {1, 2} : Upload(t, i)
        \/ Build(t)
        \/ Submit(t)
        \/ Respond(t)
        \/ \E i \in {1, 2} : Exists(t, i)
        \/ \E i \in {1, 2} : Remove(t, i)
        \/ Except(t)

Spec == Init /\ [][Next]_vars

(***************************************************************************)
(* Properties of the node locator.                                         *)
(***************************************************************************)
IndicesOf(wf, class_type) == {i \in 1..Len(wf) : wf[i].class_type = class_type}

\* C5: on a graph whose LoadImage identifiers are all digit strings,
\* find_loadimage_nodes returns exactly the LoadImage identifiers, each once,
\* in ascending order of numeric value, whatever the order of the mapping.
C5_NumericOrder ==
    (/\ ret.fn = "find_loadimage_nodes"
     /\ \A i \in IndicesOf(workflow, "LoadImage") : isdigit(workflow[i].id))
    => /\ ~ret.out.raised
       /\ Len(ret.out.value) = Cardinality(IndicesOf(workflow, "LoadImage"))
       /\ {ret.out.value[k] : k \in 1..Len(ret.out.value)}
             = {workflow[i].id : i \in IndicesOf(workflow, "LoadImage")}
       /\ \A k \in 1..(Len(ret.out.value) - 1) :
             int(ret.out.value[k]) <= int(ret.out.value[k + 1])

\* The mapping iterates "9", "10", "2" and the result is ["2", "9", "10"].
C5_Witness ==
    /\ ret.fn = "find_loadimage_nodes"
    /\ [i \in 1..Len(workflow) |-> workflow[i].id] = <<<<"9">>, <<"1", "0">>, <<"2">>>>
    /\ IndicesOf(workflow, "LoadImage") = {1, 2, 3}
    /\ ~ret.out.raised
    /\ ret.out.value = <<<<"2">>, <<"9">>, <<"1", "0">>>>

HasPositiveTitle(node) ==
    Has(node, "title") /\ Contains(POSITIVE, lower(node.title))

ContainsNegative(node) ==
    Has(node.inputs, "text") /\ Contains(NEGATIVE, lower(node.inputs.text))

ClipTitled(wf) == {i \in IndicesOf(wf, "CLIPTextEncode") : HasPositiveTitle(wf[i])}

\* C7: when exactly one CLIPTextEncode node has a title containing "positive"
\* (case-insensitive), find_positive_clip_node returns that node, for every
\* order of the mapping and whatever the nodes' input texts are.
C7_PositiveTitleWins ==
    (/\ ret.fn = "find_positive_clip_node"
     /\ Cardinality(ClipTitled(workflow)) = 1)
    => \E i \in ClipTitled(workflow) : ret.out = Some(workflow[i].id)

\* "Negative Prompt" (with a text that passes the text tier) comes first in
\* the mapping, "Positive Prompt" second, and the second is returned.
C7_Witness ==
    /\ ret.fn = "find_positive_clip_node"
    /\ Len(workflow) = 2
    /\ workflow[1].class_type = "CLIPTextEncode"
    /\ workflow[2].class_type = "CLIPTextEncode"
    /\ Has(workflow[1], "title") /\ workflow[1].title = NegativePrompt
    /\ Has(workflow[1].inputs, "text") /\ workflow[1].inputs.text = <<"c", "a", "t">>
    /\ Has(workflow[2], "title") /\ workflow[2].title = PositivePrompt
    /\ ret.out = Some(workflow[2].id)

\* The graph has exactly two CLIPTextEncode nodes, i and j, both untitled.
TwoUntitledClips(wf, i, j) ==
    /\ IndicesOf(wf, "CLIPTextEncode") = {i, j}
    /\ i # j
    /\ ~Has(wf[i], "title")
    /\ ~Has(wf[j], "title")

NoTierPasses(wf) ==
    \A i \in IndicesOf(wf, "CLIPTextEncode") :
        /\ ~HasPositiveTitle(wf[i])
        /\ ~(Has(wf[i].inputs, "text") /\ Len(wf[i].inputs.text) > 0
                /\ ~ContainsNegative(wf[i]))

\* The last part of C8: when no node passes the title tier or the text tier
\* the first CLIPTextEncode node of the mapping is returned, and None when
\* the graph has no CLIPTextEncode node.
FallbackIsFirstClip ==
    (ret.fn = "find_positive_clip_node" /\ NoTierPasses(workflow))
    => IF IndicesOf(workflow, "CLIPTextEncode") = {} THEN ret.out = None
       ELSE \E i \in IndicesOf(workflow, "CLIPTextEncode") :
               /\ \A j \in IndicesOf(workflow, "CLIPTextEncode") : i <= j
               /\ ret.out = Some(workflow[i].id)

\* C8 as stated: of two untitled CLIPTextEncode nodes, one whose text contains
\* "negative" and one whose text does not, the one whose text does not
\* contain "negative" is returned; with no node passing a tier the first
\* CLIPTextEncode node is returned, and None without any such node.
C8_Original ==
    /\ ret.fn = "find_positive_clip_node"
       => \A i, j \in 1..Len(workflow) :
             (/\ TwoUntitledClips(workflow, i, j)
              /\ ContainsNegative(workflow[i])
              /\ Has(workflow[j].inputs, "text")
              /\ ~ContainsNegative(workflow[j]))
             => ret.out = Some(workflow[j].id)
    /\ FallbackIsFirstClip

\* C8 as amended: the node without "negative" is returned when its input text
\* is non-empty; the rest as stated.
C8_NonEmptyTextWins ==
    /\ ret.fn = "find_positive_clip_node"
       => \A i, j \in 1..Len(workflow) :
             (/\ TwoUntitledClips(workflow, i, j)
              /\ ContainsNegative(workflow[i])
              /\ Has(workflow[j].inputs, "text")
              /\ Len(workflow[j].inputs.text) > 0
              /\ ~ContainsNegative(workflow[j]))
             => ret.out = Some(workflow[j].id)
    /\ FallbackIsFirstClip

\* The node whose text is "Negative" comes first, the node whose text is
\* "cat" second, both untitled, and the second is returned.
C8_Witness ==
    /\ ret.fn = "find_positive_clip_node"
    /\ Len(workflow) = 2
    /\ TwoUntitledClips(workflow, 1, 2)
    /\ ContainsNegative(workflow[1])
    /\ Has(workflow[2].inputs, "text") /\ workflow[2].inputs.text = <<"c", "a", "t">>
    /\ ret.out = Some(workflow[2].id)

(***************************************************************************)
(* Properties of the workflow mutator.                                     *)
(***************************************************************************)
\* The order the identifiers are meant to be sorted in: numeric value between
\* digit strings, string order otherwise.
SortsBefore(x, y) ==
    IF isdigit(x) /\ isdigit(y) THEN int(x) < int(y) ELSE StrLess(x, y)

\* In graph out, built from template wf, node a holds ref1, node b holds ref2,
\* a and b are the first two LoadImage nodes in sorted order, and every other
\* LoadImage node holds the image it held in the template.
AssignsFirstTwo(wf, out, a, b, ref1, ref2) ==
    LET loads == IndicesOf(wf, "LoadImage")
    IN  /\ a # b
        /\ \A k \in loads \ {a} : ~SortsBefore(wf[k].id, wf[a].id)
        /\ \A k \in loads \ {a, b} : ~SortsBefore(wf[k].id, wf[b].id)
        /\ Len(out) = Len(wf)
        /\ out[a].inputs.image = ref1
        /\ out[b].inputs.image = ref2
        /\ \A k \in loads \ {a, b} : out[k].inputs.image = wf[k].inputs.image

\* C6: for every image template with at least two LoadImage nodes,
\* build_image_workflow(ref1, ref2, ...) returns a graph in which the first
\* LoadImage node in sorted order holds ref1, the second holds ref2, and no
\* other LoadImage node's inputs.image has changed.
C6_Original ==
    (/\ ret.fn = "build_image_workflow"
     /\ Cardinality(IndicesOf(workflow, "LoadImage")) >= 2)
    => /\ ~ret.out.raised
       /\ \E a, b \in IndicesOf(workflow, "LoadImage") :
             AssignsFirstTwo(workflow, ret.out.value, a, b,
                             ret.crop1_filename, ret.crop2_filename)

(***************************************************************************)
(* Properties of the remote uploader.                                      *)
(***************************************************************************)
\* C9: for every successfully parsed upload response upload_image_to_comfy
\* does not raise; it returns "{subfolder}/{name}" when the response has a
\* non-empty subfolder and a name, name when subfolder is absent or empty,
\* and falls back to the display filename when the response omits name, also
\* when it has a non-empty subfolder.
C9_Original ==
    (/\ ret.fn = "upload_image_to_comfy"
     /\ fs[ret.file_path] # NoFile
     /\ ret.reply.ok)
    => LET result == ret.reply.result
           folder == Has(result, "subfolder") /\ Len(result.subfolder) > 0
       IN  /\ ~ret.out.raised
           /\ (folder /\ Has(result, "name"))
                 => ret.out.value = result.subfolder \o <<"/">> \o result.name
           /\ (~folder /\ Has(result, "name")) => ret.out.value = result.name
           /\ ~Has(result, "name")
                 => ret.out.value \in
                      IF folder
                      THEN {ret.filename, result.subfolder \o <<"/">> \o ret.filename}
                      ELSE {ret.filename}

(***************************************************************************)
(* Properties of the request handlers.                                     *)
(***************************************************************************)
\* The positions of the trace at which the request sent something to the
\* remote engine.
CallsIn(trace) == {k \in 1..Len(trace) : trace[k].http # ""}

RaisedInsufficientNodes(t, k) ==
    /\ req[t].kind = "image"
    /\ req[t].trace[k].step = "build"
    /\ req[t].trace[k].error = "RuntimeError"

FewLoadImageNodes ==
    /\ imageTemplate # None
    /\ Cardinality(IndicesOf(imageTemplate[1], "LoadImage")) < 2

\* C1 as stated: when build_image_workflow raises the insufficient-node error
\* in an image request, the request has made no outbound HTTP call so far.
C1_Original ==
    \A t \in Threads : \A k \in 1..Len(req[t].trace) :
        RaisedInsufficientNodes(t, k)
        => \A j \in CallsIn(req[t].trace) : j >= k

\* C1 as amended: on an image template with 0 or 1 LoadImage nodes the build
\* step raises the insufficient-node error; it is raised after exactly the two
\* POST /upload/image of the request, both answered, and before any
\* POST /prompt, and the request sends nothing after it.
C1_NoSubmitOnFewNodes ==
    \A t \in Threads : \A k \in 1..Len(req[t].trace) :
        /\ (req[t].kind = "image" /\ FewLoadImageNodes /\ req[t].trace[k].step = "build")
           => RaisedInsufficientNodes(t, k)
        /\ RaisedInsufficientNodes(t, k)
           => /\ FewLoadImageNodes
              /\ CallsIn(req[t].trace) = {k - 2, k - 1}
              /\ req[t].trace[k - 2].step = "upload1" /\ req[t].trace[k - 2].error = ""
              /\ req[t].trace[k - 1].step = "upload2" /\ req[t].trace[k - 1].error = ""
              /\ \A j \in 1..Len(req[t].trace) : req[t].trace[j].http # "POST /prompt"

\* An image request was answered after its build step raised the
\* insufficient-node error.
C1_Witness ==
    \E t \in Threads :
        /\ req[t].pc = "done"
        /\ \E k \in 1..Len(req[t].trace) : RaisedInsufficientNodes(t, k)

SavedAllFiles(t) ==
    /\ Len(req[t].files) > 0
    /\ \A i \in 1..Len(req[t].files) :
          \E k \in 1..Len(req[t].trace) :
              req[t].trace[k].step = SaveStep[i] /\ req[t].trace[k].error = ""

\* C2: once a request that saved its uploaded files has completed, no file
\* of the temporary directory holds what that request saved.
C2_Original ==
    \A t \in Threads :
        (req[t].pc = "done" /\ SavedAllFiles(t))
        => \A p \in Paths : fs[p] = NoFile \/ fs[p][1] # req[t].no

StepOk(t, step) ==
    \E k \in 1..Len(req[t].trace) :
        req[t].trace[k].step = step /\ req[t].trace[k].error = ""

\* C3: a completed request's response has ok=true only if every upload of the
\* request was answered, the workflow was built and the submit call was
\* answered; every other response is exactly {ok: false, error: message}.
C3_NoPartialSuccess ==
    \A t \in Threads :
        req[t].pc = "done"
        => LET body == req[t].response[1].body
           IN  IF body.ok
               THEN /\ \A i \in 1..Len(req[t].files) : StepOk(t, UploadStep[i])
                    /\ Len(req[t].files) > 0
                    /\ StepOk(t, "build")
                    /\ StepOk(t, "submit")
               ELSE DOMAIN body = {"ok", "error"}

\* An image request whose two uploads were answered and whose submit call
\* failed was answered with ok=false.
C3_Witness ==
    \E t \in Threads :
        /\ req[t].pc = "done"
        /\ req[t].kind = "image"
        /\ StepOk(t, "upload1") /\ StepOk(t, "upload2") /\ StepOk(t, "build")
        /\ \E k \in 1..Len(req[t].trace) :
              req[t].trace[k].step = "submit" /\ req[t].trace[k].error # ""
        /\ ~req[t].response[1].body.ok

\* The chain of a request up to its response.
Chain(kind) ==
    IF kind = "image"
    THEN <<"save1", "save2", "upload1", "upload2", "build", "submit", "respond">>
    ELSE <<"save1", "upload1", "build", "submit", "respond">>

ChainSteps == {"save1", "save2", "upload1", "upload2", "build", "submit", "respond"}

\* The steps that follow the chain: the deletion of the temporary files and
\* the error response.
TailRank(step) ==
    CASE step = "delete1" -> 1
      [] step = "delete2" -> 2
      [] step = "respond_error" -> 3

\* C4: the steps of a request are taken in the order save, upload crop1,
\* upload crop2, mutate, submit, respond, delete; each at most once; a step
\* is taken only when every step before it succeeded, so a failed call is
\* never attempted again and no later call follows it; a request answered
\* with ok=true made each outbound call exactly once.
C4_SingleChain ==
    \A t \in Threads :
        LET trace == req[t].trace
            chain == Chain(req[t].kind)
        IN  /\ \A k \in 1..Len(trace) :
                  IF trace[k].step \in ChainSteps
                  THEN /\ k <= Len(chain)
                       /\ trace[k].step = chain[k]
                       /\ \A j \in 1..(k - 1) : trace[j].error = ""
                  ELSE \A j \in 1..(k - 1) :
                          \/ trace[j].step \in ChainSteps
                          \/ TailRank(trace[j].step) < TailRank(trace[k].step)
            /\ (req[t].pc = "done" /\ req[t].response[1].body.ok)
               => /\ Cardinality(CallsIn(trace)) = Len(req[t].files) + 1
                  /\ \A k \in 1..Len(chain) : trace[k].step = chain[k]

\* An image request went through the whole chain, deleted both temporary
\* files and was answered with ok=true.
C4_Witness ==
    \E t \in Threads :
        /\ req[t].pc = "done"
        /\ req[t].response[1].body.ok
        /\ [k \in 1..Len(req[t].trace) |-> req[t].trace[k].step]
             = <<"save1", "save2", "upload1", "upload2", "build", "submit", "respond",
                 "delete1", "delete2">>

\* What upload i of a request reads when the request runs alone: the file
\* the request saved last at that path.
AloneData(r, i) ==
    IF \E j \in (i + 1)..Len(r.files) : PathOf(r, j) = PathOf(r, i)
    THEN <<r.no, CHOOSE j \in (i + 1)..Len(r.files) : PathOf(r, j) = PathOf(r, i)>>
    ELSE <<r.no, i>>

\* C10: whatever the other request does, a request finds each file it saved
\* when it uploads it, uploads the content it would upload running alone, and
\* finds in its cleanup the files it found to exist.
C10_Original ==
    \A t \in Threads : \A k \in 1..Len(req[t].trace) :
        LET e == req[t].trace[k]
        IN  /\ \A i \in 1..Len(req[t].files) :
                  e.step = UploadStep[i]
                  => /\ e.error # "FileNotFoundError"
                     /\ e.http # "" => e.data = AloneData(req[t], i)
            /\ e.step \in {"delete1", "delete2"} => e.error = ""

\* A local save of the request raised.
SaveFailed(t) ==
    \E k \in 1..Len(req[t].trace) :
        req[t].trace[k].step \in {"save1", "save2"} /\ req[t].trace[k].error # ""

\* C11: once an image request of which a local save (crop1 or crop2) failed
\* has completed, no file of the temporary directory holds what that request
\* saved.
C11_Original ==
    \A t \in Threads :
        (req[t].pc = "done" /\ req[t].kind = "image" /\ SaveFailed(t))
        => \A p \in Paths : fs[p] = NoFile \/ fs[p][1] # req[t].no

(***************************************************************************)
(* The locator on graphs with identifiers of both kinds.                   *)
(***************************************************************************)
\* Two identifiers of the same kind in the wrong order: numeric value between
\* digit strings, string order between the others.
OutOfOrder(x, y) ==
    \/ isdigit(x) /\ isdigit(y) /\ int(y) < int(x)
    \/ ~isdigit(x) /\ ~isdigit(y) /\ StrLess(y, x)

\* C12: for every graph, also one with digit-only and other LoadImage
\* identifiers, find_loadimage_nodes does not fail and returns the LoadImage
\* identifiers, each once, as a list ordered by numeric value between
\* digit-only identifiers and by string order between the others.
C12_Original ==
    ret.fn = "find_loadimage_nodes"
    => /\ ~ret.out.raised
       /\ Len(ret.out.value) = Cardinality(IndicesOf(workflow, "LoadImage"))
       /\ {ret.out.value[k] : k \in 1..Len(ret.out.value)}
             = {workflow[i].id : i \in IndicesOf(workflow, "LoadImage")}
       /\ \A i, j \in 1..Len(ret.out.value) :
             i < j => ~OutOfOrder(ret.out.value[i], ret.out.value[j])

(***************************************************************************)
(* The frame of the workflow mutator.                                      *)
(***************************************************************************)
\* LoadImage node k comes before LoadImage node a in the sorted list: by the
\* sort order, and by the order of the mapping between equal keys.
Precedes(wf, k, a) ==
    \/ SortsBefore(wf[k].id, wf[a].id)
    \/ ~SortsBefore(wf[a].id, wf[k].id) /\ k < a

RankOf(wf, a) ==
    Cardinality({k \in IndicesOf(wf, "LoadImage") \ {a} : Precedes(wf, k, a)})

\* The first node of the class in the order of the mapping, if any.
FirstIndexOf(wf, class_type) ==
    {i \in IndicesOf(wf, class_type) : \A j \in IndicesOf(wf, class_type) : i <= j}

InputOf(node, key) ==
    IF Has(node.inputs, key) THEN Some(node.inputs[key]) ELSE None

\* What inputs[key] of node i may hold after the call: the value the call
\* writes in one of the four fields it may write, the template's value (or
\* absence) everywhere else.
AllowedInput(wf, i, key, call) ==
    IF wf[i].class_type = "LoadImage" /\ key = "image" /\ RankOf(wf, i) = 0
    THEN Some(call.crop1_filename)
    ELSE IF wf[i].class_type = "LoadImage" /\ key = "image" /\ RankOf(wf, i) = 1
    THEN Some(call.crop2_filename)
    ELSE IF i \in FirstIndexOf(wf, "GeminiImageNode") /\ key = "prompt"
            /\ Len(call.prompt) > 0
    THEN Some(call.prompt)
    ELSE IF i \in FirstIndexOf(wf, "SaveImage") /\ key = "filename_prefix"
            /\ Len(call.filename_prefix) > 0
    THEN Some(call.filename_prefix)
    ELSE IF i \in FirstIndexOf(wf, "SaveImage") /\ key = "format"
            /\ Has(wf[i].inputs, "format")
    THEN Some(MP4)
    ELSE InputOf(wf[i], key)

MutatorKeys == {"image", "prompt", "filename_prefix", "format"}

\* C13: the graph build_image_workflow returns has the nodes of the template
\* in the same order with the same id and class; it differs from the template
\* only in inputs.image of the first two sorted LoadImage nodes, inputs.prompt
\* of the first GeminiImageNode when a prompt was supplied,
\* inputs.filename_prefix of the first SaveImage node when a prefix was
\* supplied, and inputs.format of that node, which is "mp4" exactly when the
\* template has the field and is never added; every other field is unchanged.
C13_FrameOfMutator ==
    (ret.fn = "build_image_workflow" /\ ~ret.out.raised)
    => LET out == ret.out.value
       IN  /\ Len(out) = Len(workflow)
           /\ \A i \in 1..Len(workflow) :
                 /\ [out[i] EXCEPT !.inputs = workflow[i].inputs] = workflow[i]
                 /\ \A key \in DOMAIN out[i].inputs \cup DOMAIN workflow[i].inputs
                                  \cup MutatorKeys :
                       InputOf(out[i], key) = AllowedInput(workflow, i, key, ret)

\* The template iterates LoadImage "7", LoadImage "3", a SaveImage node with
\* a format and a SaveImage node without; a prefix and no prompt are given.
\* The first SaveImage node got the prefix and "mp4", the second is as it was.
C13_Witness ==
    /\ ret.fn = "build_image_workflow"
    /\ ~ret.out.raised
    /\ Len(workflow) = 4
    /\ workflow[1].id = <<"7">> /\ workflow[2].id = <<"3">>
    /\ workflow[3].class_type = "SaveImage" /\ Has(workflow[3].inputs, "format")
    /\ workflow[4].class_type = "SaveImage" /\ ~Has(workflow[4].inputs, "format")
    /\ Len(ret.filename_prefix) > 0 /\ Len(ret.prompt) = 0
    /\ ret.out.value[1].inputs.image = ret.crop2_filename
    /\ ret.out.value[2].inputs.image = ret.crop1_filename
    /\ ret.out.value[3].inputs.filename_prefix = ret.filename_prefix
    /\ ret.out.value[3].inputs.format = MP4
    /\ ret.out.value[4] = workflow[4]

====
